---------------------------- MODULE Spec2Model ----------------------------
(***************************************************************************)
(* Model of the Microchip CAN BUS Analyzer SocketCAN driver, mcba_usb.c.   *)
(*                                                                         *)
(* Ten specifications share the variables:                                 *)
(*   SpecPool  the transmit context pool used sequentially                 *)
(*             (mcba_init_ctx / mcba_usb_get_free_ctx / mcba_usb_free_ctx) *)
(*   SpecTx    the transmit path: the frame send path and the control      *)
(*             command path running concurrently with each other and with  *)
(*             the transmit completion callback                            *)
(*   SpecFrame the frame send path alone, for every frame it can be given  *)
(*   SpecRx    the receive completion callback and the record dispatcher   *)
(*   SpecKa    the keep-alive reports of the two controllers               *)
(*   SpecState the termination state: keep-alive reports and the sysfs     *)
(*             attribute                                                   *)
(*   SpecBit   mcba_net_set_bittiming behind the bitrate request           *)
(*   SpecLife  the adapter from mcba_usb_probe to mcba_usb_disconnect      *)
(*   SpecDev   the device record under records of every kind and writes of *)
(*             the termination attribute                                   *)
(*   SpecTerm  writes of the termination attribute while frames are sent   *)
(*                                                                         *)
(* mcba_usb.h is not part of the sources.  The constants it defines are    *)
(* taken from the specification text and are marked where they are         *)
(* defined.                                                                *)
(***************************************************************************)
EXTENDS Integers, Sequences, FiniteSets, Bags, TLC

VARIABLES
    tx_context,     \* priv->tx_context[]: slot -> [ndx, can, dlc]
    tx_submitted,   \* priv->tx_submitted: bag of outstanding transmit transfers
    echo_skb,       \* priv->can.echo_skb[]: slot -> whether a frame is stored for echo
    stats,          \* netdev->stats
    queue,          \* transmit queue of the net device: "running" / "stopped"
    present,        \* netif_device_present(netdev)
    pc,             \* position of each caller of mcba_usb_xmit
    priv,           \* device state: firmware versions, bec, termination_state
    rx_submitted,   \* number of outstanding receive transfers
    rx_urb,         \* the completed receive transfer whose callback is due
    ev,             \* the handler step that ran last, with what it observed
    hist,           \* SpecPool: results of the acquire/release calls so far;
                    \* SpecKa: the first keep-alive report of each source
    life            \* where the adapter is between probe and disconnect, and
                    \* how many receive transfers are on priv->rx_submitted

vars == <<tx_context, tx_submitted, echo_skb, stats, queue, present, pc,
          priv, rx_submitted, rx_urb, ev, hist, life>>

----------------------------------------------------------------------------
(* Bounds of the model *)

\* Capacity of the context pool.  The driver takes it from mcba_usb.h; the
\* model scales it down.
MCBA_MAX_TX_URBS == 2

\* Frames and commands handed to the transmit path that the statistics have
\* counted or that are still outstanding.
MaxTxOps == 3

\* Number of acquire/release calls of one run of SpecPool.
MaxHist == MCBA_MAX_TX_URBS + 5

\* Number of receive transfers mcba_usb_start submits.  The driver takes it
\* from mcba_usb.h; the model scales it down.
MCBA_MAX_RX_URBS == 2

\* sizeof(struct mcba_usb_msg), the length of every message.  The driver
\* takes it from mcba_usb.h; the model scales it down.
MsgSize == 3

\* Greatest actual_length of a completed receive transfer: two records and
\* a partial one.
MaxRxLen == 2 * MsgSize + 1

\* Received frames counted before the last receive completion starts.
MaxRxPackets == 1

----------------------------------------------------------------------------
(* Constants of mcba_usb.h, from the specification text *)

\* Marks a free context; no valid slot index.
MCBA_CTX_FREE == MCBA_MAX_TX_URBS

\* The reserved bit of the dlc byte that flags a remote transmission request.
MCBA_DLC_RTR_MASK == 64

\* The 4 bits of the dlc byte that hold the data length code.
MCBA_DLC_MASK == 15

CAN_MAX_DLEN == 8

\* The value of a firmware version byte that was not reported yet.
MCBA_VER_UNDEFINED == 255

\* The firmware versions the driver was tested against.
MCBA_VER_USB_MAJOR == 2

MCBA_VER_USB_MINOR == 0

MCBA_VER_CAN_MAJOR == 2

MCBA_VER_CAN_MINOR == 0

Slots == 0 .. (MCBA_MAX_TX_URBS - 1)

\* No frame: the null skb of a control command.
NoSkb == [dlc |-> -1, rtr |-> FALSE]

\* Outbound CAN frames the stack hands to ndo_start_xmit.  The identifier
\* is packed by macros of mcba_usb.h and plays no part in the transfer's
\* life cycle; it is left out.
TxFrames == [dlc : 0 .. CAN_MAX_DLEN, rtr : BOOLEAN]

\* The frame of SpecTx, where the producer runs beside the control path.
ConcFrames == {[dlc |-> 2, rtr |-> FALSE]}

\* The control commands of SpecTx.  Set termination and change bitrate take
\* the same way through mcba_usb_xmit_cmd.
CtlCmds == {"READ_FW_VERSION"}

Threads == {"net", "ctl"}

NoMsg == [cmdId |-> "none", dlc |-> 0]

PcIdle == [at |-> "idle", i |-> 0, msg |-> NoMsg, skb |-> NoSkb]

\* No receive transfer is waiting for its callback.
NoRxUrb == [status |-> "none", buf |-> [len |-> 0, recs |-> <<>>]]

----------------------------------------------------------------------------
(* Transmit context pool *)

FreeCtx == [ndx |-> MCBA_CTX_FREE, can |-> FALSE, dlc |-> 0]

\* mcba_init_ctx: every slot is marked free.  The other fields are those of
\* the zeroed allocation of the device record.
mcba_init_ctx == [s \in Slots |-> FreeCtx]

\* The test of one slot in the scan of mcba_usb_get_free_ctx.
CtxIsFree(ctxs, i) == ctxs[i].ndx = MCBA_CTX_FREE

\* The claim of the slot the scan found: ctx->ndx = i.
CtxTake(ctxs, i) == [ctxs EXCEPT ![i].ndx = i]

\* mcba_usb_get_free_ctx run without interruption from slot i on: the index
\* of the first free slot, or MCBA_MAX_TX_URBS when the scan finds none (the
\* null context).
RECURSIVE ScanFrom(_, _)
ScanFrom(ctxs, i) ==
    IF i >= MCBA_MAX_TX_URBS THEN MCBA_MAX_TX_URBS
    ELSE IF CtxIsFree(ctxs, i) THEN i
    ELSE ScanFrom(ctxs, i + 1)

mcba_usb_get_free_ctx(ctxs) == ScanFrom(ctxs, 0)

\* A release that leaves the slot marked as taken.
free_ctx_keeps_slot(ctxs, i) == ctxs

\* mcba_usb_free_ctx
mcba_usb_free_ctx(ctxs, i) == [ctxs EXCEPT ![i] = FreeCtx]

----------------------------------------------------------------------------
(* SpecPool: the pool used by one caller at a time *)

NullCtx == MCBA_MAX_TX_URBS

\* The slots acquired and not yet released after the first n calls of h.
RECURSIVE Live(_, _)
Live(h, n) ==
    IF n = 0 THEN {}
    ELSE LET e == h[n]
             before == Live(h, n - 1)
         IN  IF e.op = "acquire"
             THEN (IF e.res = NullCtx THEN before ELSE before \cup {e.res})
             ELSE before \ {e.res}

\* One call of mcba_usb_get_free_ctx.
PoolAcquire ==
    /\ Len(hist) < MaxHist
    /\ LET i == mcba_usb_get_free_ctx(tx_context)
       IN  /\ tx_context' = IF i = NullCtx THEN tx_context
                            ELSE CtxTake(tx_context, i)
           /\ hist' = Append(hist, [op |-> "acquire", res |-> i])
    /\ UNCHANGED <<tx_submitted, echo_skb, stats, queue, present, pc, priv,
                   rx_submitted, rx_urb, ev, life>>

\* One call of mcba_usb_free_ctx, on a context its caller holds.
PoolRelease ==
    /\ Len(hist) < MaxHist
    /\ \E s \in Live(hist, Len(hist)) :
         /\ tx_context' = mcba_usb_free_ctx(tx_context, s)
         /\ hist' = Append(hist, [op |-> "release", res |-> s])
    /\ UNCHANGED <<tx_submitted, echo_skb, stats, queue, present, pc, priv,
                   rx_submitted, rx_urb, ev, life>>

\* priv->can.bittiming of the zeroed allocation.
BtZero ==
    [bitrate |-> 0, sample_point |-> 0, tq |-> 0, prop_seg |-> 0,
     phase_seg1 |-> 0, phase_seg2 |-> 0, sjw |-> 0, brp |-> 0]

\* The device record after mcba_usb_probe: zeroed by its allocation, the
\* firmware versions undefined.
PrivInit ==
    [pic_usb_sw_ver_major |-> MCBA_VER_UNDEFINED,
     pic_usb_sw_ver_minor |-> MCBA_VER_UNDEFINED,
     pic_can_sw_ver_major |-> MCBA_VER_UNDEFINED,
     pic_can_sw_ver_minor |-> MCBA_VER_UNDEFINED,
     bec |-> [txerr |-> 0, rxerr |-> 0], termination_state |-> 0,
     bittiming |-> BtZero]

StatsInit ==
    [tx_packets |-> 0, tx_bytes |-> 0, tx_dropped |-> 0,
     rx_packets |-> 0, rx_bytes |-> 0]

EvNone == [op |-> "none"]

\* The adapter probed and opened, every receive transfer of mcba_usb_start
\* still on its anchor.
LifeUp == [at |-> "up", back |-> "none", anchored |-> MCBA_MAX_RX_URBS]

Init ==
    /\ tx_context = mcba_init_ctx
    /\ tx_submitted = EmptyBag
    /\ echo_skb = [s \in Slots |-> FALSE]
    /\ stats = StatsInit
    /\ queue = "running"
    /\ present = TRUE
    /\ pc = [t \in Threads |-> PcIdle]
    /\ priv = PrivInit
    /\ rx_submitted = MCBA_MAX_RX_URBS
    /\ rx_urb = NoRxUrb
    /\ ev = EvNone
    /\ hist = <<>>
    /\ life = LifeUp

NextPool == PoolAcquire \/ PoolRelease

SpecPool == Init /\ [][NextPool]_vars

----------------------------------------------------------------------------
(* Claims on the context pool *)

AllAcquires(k) == \A j \in 1 .. k : hist[j].op = "acquire"

\* After the pool was filled by m calls (the N acquires, or those and the
\* failed one), one release lets exactly one more acquire succeed.
OneMoreAfterRelease(m) ==
    (Len(hist) >= m + 2 /\ AllAcquires(m) /\ hist[m + 1].op = "release"
        /\ hist[m + 2].op = "acquire")
    => /\ hist[m + 2].res \in Slots
       /\ (Len(hist) >= m + 3 /\ hist[m + 3].op = "acquire")
            => hist[m + 3].res = NullCtx

\* C2: from the all-free pool of capacity N = MCBA_MAX_TX_URBS, N acquires
\* in a row succeed with pairwise distinct slot indices, the (N+1)th returns
\* no context, and after one release from the full pool the next acquire
\* succeeds and the one after it returns no context again.
C2_PoolCapacity ==
    /\ \A k \in 1 .. MCBA_MAX_TX_URBS :
         (Len(hist) >= k /\ AllAcquires(k))
         => /\ hist[k].res \in Slots
            /\ \A j \in 1 .. (k - 1) : hist[j].res # hist[k].res
    /\ (Len(hist) >= MCBA_MAX_TX_URBS + 1 /\ AllAcquires(MCBA_MAX_TX_URBS + 1))
         => hist[MCBA_MAX_TX_URBS + 1].res = NullCtx
    /\ OneMoreAfterRelease(MCBA_MAX_TX_URBS)
    /\ OneMoreAfterRelease(MCBA_MAX_TX_URBS + 1)

\* N acquires, the failed one, a release, the acquire that succeeds and the
\* one that fails again.
C2_Witness ==
    /\ Len(hist) >= MCBA_MAX_TX_URBS + 4
    /\ AllAcquires(MCBA_MAX_TX_URBS + 1)
    /\ hist[MCBA_MAX_TX_URBS + 1].res = NullCtx
    /\ hist[MCBA_MAX_TX_URBS + 2].op = "release"
    /\ hist[MCBA_MAX_TX_URBS + 3].op = "acquire"
    /\ hist[MCBA_MAX_TX_URBS + 3].res \in Slots
    /\ hist[MCBA_MAX_TX_URBS + 4].op = "acquire"
    /\ hist[MCBA_MAX_TX_URBS + 4].res = NullCtx

----------------------------------------------------------------------------
(* SpecTx: the transmit path *)

\* x | MCBA_DLC_RTR_MASK on a byte.
OrRtrMask(x) ==
    IF (x \div MCBA_DLC_RTR_MASK) % 2 = 1 THEN x ELSE x + MCBA_DLC_RTR_MASK

\* The message mcba_usb_start_xmit builds from the host frame cf.
mcba_usb_start_xmit_msg(cf) ==
    [cmdId |-> "TRANSMIT_MESSAGE_EV",
     dlc   |-> IF cf.rtr THEN OrRtrMask(cf.dlc) ELSE cf.dlc]

\* The message of a control command; it has no dlc field.
CmdMsg(c) == [cmdId |-> c, dlc |-> 0]

IsFrameMsg(msg) == msg.cmdId = "TRANSMIT_MESSAGE_EV"

\* Work the statistics have counted or that is still outstanding.
TxOps == stats.tx_packets + stats.tx_dropped + BagCardinality(tx_submitted)

\* can_put_echo_skb: the frame is stored for the echo in its slot.
can_put_echo_skb(echo, idx) == [echo EXCEPT ![idx] = TRUE]

\* can_get_echo_skb and can_free_echo_skb both empty the slot.
can_clear_echo_skb(echo, idx) == [echo EXCEPT ![idx] = FALSE]

\* ndo_start_xmit, up to the call of mcba_usb_xmit.  The stack calls it
\* while the queue runs and the device is present, one call at a time.
StartXmit(frames) ==
    /\ pc["net"].at = "idle"
    /\ queue = "running"
    /\ present
    /\ TxOps < MaxTxOps
    /\ \E cf \in frames :
         pc' = [pc EXCEPT !["net"] =
                  [at |-> "scan", i |-> 0,
                   msg |-> mcba_usb_start_xmit_msg(cf), skb |-> cf]]
    /\ ev' = [op |-> "call"]
    /\ UNCHANGED <<tx_context, tx_submitted, echo_skb, stats, queue, present,
                   priv, rx_submitted, rx_urb, hist, life>>

\* mcba_usb_xmit_cmd, called by the control paths (set termination, change
\* bitrate, read firmware version), up to the call of mcba_usb_xmit.
XmitCmd ==
    /\ pc["ctl"].at = "idle"
    /\ TxOps < MaxTxOps
    /\ \E c \in CtlCmds :
         pc' = [pc EXCEPT !["ctl"] =
                  [at |-> "scan", i |-> 0, msg |-> CmdMsg(c), skb |-> NoSkb]]
    /\ ev' = [op |-> "call"]
    /\ UNCHANGED <<tx_context, tx_submitted, echo_skb, stats, queue, present,
                   priv, rx_submitted, rx_urb, hist, life>>

\* One pass of the loop of mcba_usb_get_free_ctx: the read of slot i.
GetFreeCtxScan(t) ==
    /\ pc[t].at = "scan"
    /\ pc' = [pc EXCEPT ![t].at =
                IF CtxIsFree(tx_context, pc[t].i) THEN "take"
                ELSE IF pc[t].i + 1 < MCBA_MAX_TX_URBS THEN "scan"
                ELSE "null",
              ![t].i =
                IF CtxIsFree(tx_context, pc[t].i) THEN pc[t].i
                ELSE pc[t].i + 1]
    /\ ev' = [op |-> "scan"]
    /\ UNCHANGED <<tx_context, tx_submitted, echo_skb, stats, queue, present,
                   priv, rx_submitted, rx_urb, hist, life>>

\* A send path that drops the frame when it finds no context, instead of
\* holding the producer back.
XmitBusyDrops(t) ==
    /\ pc[t].at = "null"
    /\ stats' = [stats EXCEPT !.tx_dropped = @ + 1]
    /\ pc' = [pc EXCEPT ![t] = PcIdle]
    /\ ev' = [op |-> "xmit", thread |-> t, ret |-> "NETDEV_TX_OK",
              how |-> "busy", ctx |-> NullCtx]
    /\ UNCHANGED <<tx_context, tx_submitted, echo_skb, queue, present, priv,
                   rx_submitted, rx_urb, hist, life>>

\* mcba_usb_xmit when mcba_usb_get_free_ctx returned no context.
XmitBusy(t) ==
    /\ pc[t].at = "null"
    /\ queue' = "stopped"
    /\ pc' = [pc EXCEPT ![t] = PcIdle]
    /\ ev' = [op |-> "xmit", thread |-> t, ret |-> "NETDEV_TX_BUSY",
              how |-> "busy", ctx |-> NullCtx]
    /\ UNCHANGED <<tx_context, tx_submitted, echo_skb, stats, present, priv,
                   rx_submitted, rx_urb, hist, life>>

\* The context after mcba_usb_xmit has filled it in.
CtxFill(ctxs, i, msg, skb) ==
    IF skb # NoSkb
    THEN [ctxs EXCEPT ![i].dlc = msg.dlc, ![i].can = TRUE]
    ELSE [ctxs EXCEPT ![i].can = FALSE]

\* What became of the transfer in mcba_usb_xmit: submitted; not submitted
\* and the path from label nomem taken (no transfer, no buffer, or a
\* submission error other than -ENODEV); -ENODEV from the submission.
XmitOutcomes == {"ok", "nomem", "failed_enodev"}

\* The buffers the failure path of mcba_usb_xmit releases, in order:
\* can_free_echo_skb releases the buffer stored in slot i, if there is one,
\* and dev_kfree_skb releases skb, if it is not null.  can_put_echo_skb has
\* taken skb over, so for a frame both are the same buffer.
XmitFailFrees(echo, i, skb) ==
    (IF echo[i] THEN <<"echo_skb">> ELSE <<>>)
    \o (IF skb # NoSkb THEN <<"skb">> ELSE <<>>)

\* mcba_usb_xmit from the claim of the slot the scan found to its return.
XmitTake(t) ==
    /\ pc[t].at = "take"
    /\ \E how \in XmitOutcomes :
         LET i   == pc[t].i
             msg == pc[t].msg
             skb == pc[t].skb
             put == IF skb # NoSkb THEN can_put_echo_skb(echo_skb, i)
                    ELSE echo_skb
         IN  /\ tx_context' = CtxFill(CtxTake(tx_context, i), i, msg, skb)
             /\ IF how = "ok"
                THEN /\ tx_submitted' = tx_submitted (+) SetToBag({[ctx |-> i, msg |-> msg]})
                     /\ echo_skb' = put
                     /\ UNCHANGED <<stats, present, queue>>
                ELSE /\ echo_skb' = can_clear_echo_skb(put, i)
                     /\ stats' = [stats EXCEPT !.tx_dropped = @ + 1]
                     /\ present' = IF how = "failed_enodev" THEN FALSE ELSE present
                     /\ queue' = IF how = "failed_enodev" /\ present
                                 THEN "stopped" ELSE queue
                     /\ UNCHANGED tx_submitted
             /\ ev' = [op |-> "xmit", thread |-> t, ret |-> "NETDEV_TX_OK",
                       how |-> how, ctx |-> i,
                       freed |-> IF how = "ok" THEN <<>>
                                 ELSE XmitFailFrees(put, i, skb)]
    /\ pc' = [pc EXCEPT ![t] = PcIdle]
    /\ UNCHANGED <<priv, rx_submitted, rx_urb, hist, life>>

\* mcba_usb_write_bulk_callback for the completed transfer urb.
mcba_usb_write_bulk_callback(urb) ==
    LET ctx == tx_context[urb.ctx]
    IN  /\ tx_submitted' = tx_submitted (-) SetToBag({urb})
        /\ IF ctx.ndx = MCBA_CTX_FREE
           THEN \* ctx->priv is null: the callback stops at ctx->priv->netdev
                /\ ev' = [op |-> "write_cb_oops", urb |-> urb]
                /\ UNCHANGED <<tx_context, echo_skb, stats, queue>>
           ELSE IF ctx.can /\ ~present
           THEN /\ ev' = [op |-> "write_cb", urb |-> urb, echo |-> NullCtx]
                /\ UNCHANGED <<tx_context, echo_skb, stats, queue>>
           ELSE /\ IF ctx.can
                   THEN /\ stats' = [stats EXCEPT !.tx_packets = @ + 1,
                                                  !.tx_bytes = @ + ctx.dlc]
                        /\ echo_skb' = can_clear_echo_skb(echo_skb, ctx.ndx)
                        /\ queue' = "running"
                        /\ ev' = [op |-> "write_cb", urb |-> urb, echo |-> ctx.ndx]
                   ELSE /\ ev' = [op |-> "write_cb", urb |-> urb, echo |-> NullCtx]
                        /\ UNCHANGED <<echo_skb, stats, queue>>
                /\ tx_context' = mcba_usb_free_ctx(tx_context, urb.ctx)
    /\ UNCHANGED <<present, pc, priv, rx_submitted, rx_urb, hist, life>>

WriteBulkCallback ==
    \E urb \in BagToSet(tx_submitted) : mcba_usb_write_bulk_callback(urb)

NextTx ==
    \/ StartXmit(ConcFrames)
    \/ XmitCmd
    \/ \E t \in Threads : GetFreeCtxScan(t)
    \/ \E t \in Threads : XmitBusy(t)
    \/ \E t \in Threads : XmitTake(t)
    \/ WriteBulkCallback

SpecTx == Init /\ [][NextTx]_vars

\* SpecFrame: the frame send path alone, for every frame.
NextFrame ==
    \/ StartXmit(TxFrames)
    \/ GetFreeCtxScan("net")
    \/ XmitBusy("net")
    \/ XmitTake("net")
    \/ WriteBulkCallback

SpecFrame == Init /\ [][NextFrame]_vars

----------------------------------------------------------------------------
(* Claims on the transmit path *)

\* The outstanding transfers whose context is slot s.
RECURSIVE CopiesOf(_)
CopiesOf(us) ==
    IF us = {} THEN 0
    ELSE LET u == CHOOSE v \in us : TRUE
         IN  CopiesIn(u, tx_submitted) + CopiesOf(us \ {u})

OutstandingOn(s) == CopiesOf({u \in BagToSet(tx_submitted) : u.ctx = s})

AllIdle == \A t \in Threads : pc[t].at = "idle"

\* C1: at any time no slot of the context pool is the context of two
\* outstanding transfers.
C1_NoSharedSlot == \A s \in Slots : OutstandingOn(s) <= 1

\* C3: when a transmit completion callback has returned, the slot of its
\* transfer is free, whatever the transfer carried and whether or not the
\* device is present.
C3_CallbackReleases ==
    ev.op = "write_cb" => CtxIsFree(tx_context, ev.urb.ctx)

\* C4: with the device present, a completion callback that releases a
\* context lifts the backpressure: it does not leave the queue stopped with
\* every context free and nothing outstanding or under way.
C4_BackpressureLifted ==
    ~ ( /\ ev.op = "write_cb"
        /\ present
        /\ queue = "stopped"
        /\ AllIdle
        /\ tx_submitted = EmptyBag
        /\ \A s \in Slots : CtxIsFree(tx_context, s) )

\* C5: the step of the frame send path that follows a scan that found no
\* free context stops the queue and returns busy; it changes no context,
\* submits no transfer, stores and releases no echo frame and leaves the
\* statistics as they were.
C5_BusyKeepsFrame ==
    [][ (pc["net"].at = "null" /\ pc'["net"].at # "null")
        => /\ ev'.op = "xmit"
           /\ ev'.thread = "net"
           /\ ev'.ret = "NETDEV_TX_BUSY"
           /\ queue' = "stopped"
           /\ tx_context' = tx_context
           /\ tx_submitted' = tx_submitted
           /\ echo_skb' = echo_skb
           /\ stats' = stats ]_vars

\* The frame send path has just returned busy from a full pool.
C5_Witness ==
    /\ ev.op = "xmit"
    /\ ev.thread = "net"
    /\ ev.ret = "NETDEV_TX_BUSY"
    /\ queue = "stopped"
    /\ \A s \in Slots : ~CtxIsFree(tx_context, s)

\* The data length code of the frame a transmit message carries.
FrameDlc(msg) == msg.dlc % (MCBA_DLC_MASK + 1)

\* C6: the completion, with the device present, of the transfer of a frame
\* with data length code d sent through slot s acknowledges the echo of
\* slot s, adds 1 to the transmitted packets and d to the transmitted bytes.
C6_FrameAccounting ==
    [][ ( /\ BagCardinality(tx_submitted') < BagCardinality(tx_submitted)
          /\ ev'.op = "write_cb"
          /\ IsFrameMsg(ev'.urb.msg)
          /\ present )
        => /\ ev'.echo = ev'.urb.ctx
           /\ stats'.tx_packets = stats.tx_packets + 1
           /\ stats'.tx_bytes = stats.tx_bytes + FrameDlc(ev'.urb.msg) ]_vars

----------------------------------------------------------------------------
(* SpecRx: the receive completion callback and the record dispatcher *)

\* A received record: the command id and the fields its handler reads.
\* nomem: alloc_can_skb finds no memory when the record is handled.
Rec(cmd, dlc, nomem, txe, rxe, major, minor, term) ==
    [cmdId |-> cmd, dlc |-> dlc, nomem |-> nomem,
     tx_err_cnt |-> txe, rx_err_cnt |-> rxe,
     soft_ver_major |-> major, soft_ver_minor |-> minor,
     termination_state |-> term]

KnownRxCmds ==
    {"I_AM_ALIVE_FROM_CAN", "I_AM_ALIVE_FROM_USB", "RECEIVE_MESSAGE",
     "NOTHING_TO_SEND", "TRANSMIT_MESSAGE_RSP"}

\* The records of SpecRx.
RxRecs ==
    { Rec("I_AM_ALIVE_FROM_CAN", 0, FALSE, 3, 1, 2, 0, 0),
      Rec("I_AM_ALIVE_FROM_CAN", 0, FALSE, 5, 1, 2, 0, 0),
      Rec("I_AM_ALIVE_FROM_USB", 0, FALSE, 0, 0, 2, 0, 1),
      Rec("RECEIVE_MESSAGE", 8, FALSE, 0, 0, 0, 0, 0),
      Rec("RECEIVE_MESSAGE", 15, FALSE, 0, 0, 0, 0, 0),
      Rec("RECEIVE_MESSAGE", 2, TRUE, 0, 0, 0, 0, 0),
      Rec("NOTHING_TO_SEND", 0, FALSE, 0, 0, 0, 0, 0),
      Rec("UNKNOWN", 0, FALSE, 0, 0, 0, 0, 0) }

\* Completion statuses of a receive transfer: success, the two
\* cancellations, and another error.
RxStatuses == {"0", "ENOENT", "ESHUTDOWN", "EPROTO"}

\* Results of the resubmission: success, -ENODEV, another error.
SubmitResults == {"0", "ENODEV", "EIO"}

\* The records a buffer of len bytes holds, the trailing partial one
\* included.
RecsIn(len) == (len + MsgSize - 1) \div MsgSize

\* The record the dispatcher reads at offset pos.
MsgAt(buf, pos) == buf.recs[(pos \div MsgSize) + 1]

\* What the dispatch of one buffer works on: the device record and the
\* statistics, and what the handlers report: the offsets handed to
\* mcba_usb_process_rx, the format errors and the warnings logged, the
\* frames handed to netif_rx and the firmware versions announced.
DispatchStart(p, st) ==
    [priv |-> p, stats |-> st, processed |-> <<>>, fmt_err |-> 0,
     warns |-> 0, frames |-> <<>>, notices |-> <<>>]

\* mcba_usb_process_can
mcba_usb_process_can(d, msg) ==
    IF msg.nomem THEN d
    ELSE LET can_dlc == msg.dlc % (MCBA_DLC_MASK + 1)
         IN  [d EXCEPT
                !.stats.rx_packets = @ + 1,
                !.stats.rx_bytes = @ + can_dlc,
                !.frames = Append(@, [can_dlc |-> can_dlc, copied |-> can_dlc])]

\* The warning about a firmware version the driver was not tested against.
VersionWarned(major, minor, msg) ==
    (~(major = msg.soft_ver_major)) /\ (minor = msg.soft_ver_minor)

\* mcba_usb_process_keep_alive_usb
mcba_usb_process_keep_alive_usb(d, msg) ==
    LET first == /\ d.priv.pic_usb_sw_ver_major = MCBA_VER_UNDEFINED
                 /\ d.priv.pic_usb_sw_ver_minor = MCBA_VER_UNDEFINED
        note  == [src |-> "USB", major |-> msg.soft_ver_major,
                  minor |-> msg.soft_ver_minor,
                  warned |-> VersionWarned(MCBA_VER_USB_MAJOR,
                                           MCBA_VER_USB_MINOR, msg)]
    IN  [d EXCEPT
           !.notices = IF first THEN Append(@, note) ELSE @,
           !.priv.pic_usb_sw_ver_major = msg.soft_ver_major,
           !.priv.pic_usb_sw_ver_minor = msg.soft_ver_minor,
           !.priv.termination_state = msg.termination_state]

\* A handler that takes the error counters only from the first report.
keep_alive_can_first_only(d, msg) ==
    LET first == /\ d.priv.pic_can_sw_ver_major = MCBA_VER_UNDEFINED
                 /\ d.priv.pic_can_sw_ver_minor = MCBA_VER_UNDEFINED
        note  == [src |-> "CAN", major |-> msg.soft_ver_major,
                  minor |-> msg.soft_ver_minor,
                  warned |-> VersionWarned(MCBA_VER_CAN_MAJOR,
                                           MCBA_VER_CAN_MINOR, msg)]
    IN  [d EXCEPT
           !.notices = IF first THEN Append(@, note) ELSE @,
           !.priv.bec = IF first THEN [txerr |-> msg.tx_err_cnt,
                                       rxerr |-> msg.rx_err_cnt]
                        ELSE @,
           !.priv.pic_can_sw_ver_major = msg.soft_ver_major,
           !.priv.pic_can_sw_ver_minor = msg.soft_ver_minor]

\* A handler of the CAN report that also resets the termination state.
keep_alive_can_resets_termination(d, msg) ==
    LET first == /\ d.priv.pic_can_sw_ver_major = MCBA_VER_UNDEFINED
                 /\ d.priv.pic_can_sw_ver_minor = MCBA_VER_UNDEFINED
        note  == [src |-> "CAN", major |-> msg.soft_ver_major,
                  minor |-> msg.soft_ver_minor,
                  warned |-> VersionWarned(MCBA_VER_CAN_MAJOR,
                                           MCBA_VER_CAN_MINOR, msg)]
    IN  [d EXCEPT
           !.notices = IF first THEN Append(@, note) ELSE @,
           !.priv.bec = [txerr |-> msg.tx_err_cnt, rxerr |-> msg.rx_err_cnt],
           !.priv.pic_can_sw_ver_major = msg.soft_ver_major,
           !.priv.pic_can_sw_ver_minor = msg.soft_ver_minor,
           !.priv.termination_state = 0]

\* mcba_usb_process_keep_alive_can
mcba_usb_process_keep_alive_can(d, msg) ==
    LET first == /\ d.priv.pic_can_sw_ver_major = MCBA_VER_UNDEFINED
                 /\ d.priv.pic_can_sw_ver_minor = MCBA_VER_UNDEFINED
        note  == [src |-> "CAN", major |-> msg.soft_ver_major,
                  minor |-> msg.soft_ver_minor,
                  warned |-> VersionWarned(MCBA_VER_CAN_MAJOR,
                                           MCBA_VER_CAN_MINOR, msg)]
    IN  [d EXCEPT
           !.notices = IF first THEN Append(@, note) ELSE @,
           !.priv.bec = [txerr |-> msg.tx_err_cnt, rxerr |-> msg.rx_err_cnt],
           !.priv.pic_can_sw_ver_major = msg.soft_ver_major,
           !.priv.pic_can_sw_ver_minor = msg.soft_ver_minor]

\* A dispatcher that takes a record with an unknown command id for a frame.
process_rx_unknown_as_frame(d, msg) ==
    CASE msg.cmdId = "I_AM_ALIVE_FROM_CAN" -> mcba_usb_process_keep_alive_can(d, msg)
      [] msg.cmdId = "I_AM_ALIVE_FROM_USB" -> mcba_usb_process_keep_alive_usb(d, msg)
      [] msg.cmdId = "NOTHING_TO_SEND" -> d
      [] msg.cmdId = "TRANSMIT_MESSAGE_RSP" -> d
      [] OTHER -> mcba_usb_process_can(d, msg)

\* mcba_usb_process_rx
mcba_usb_process_rx(d, msg) ==
    CASE msg.cmdId = "I_AM_ALIVE_FROM_CAN" -> mcba_usb_process_keep_alive_can(d, msg)
      [] msg.cmdId = "I_AM_ALIVE_FROM_USB" -> mcba_usb_process_keep_alive_usb(d, msg)
      [] msg.cmdId = "RECEIVE_MESSAGE" -> mcba_usb_process_can(d, msg)
      [] msg.cmdId = "NOTHING_TO_SEND" -> d
      [] msg.cmdId = "TRANSMIT_MESSAGE_RSP" -> d
      [] OTHER -> [d EXCEPT !.warns = @ + 1]

\* The entry of the log of processed records for the record at offset pos.
Seen(buf, pos) == [pos |-> pos, cmdId |-> MsgAt(buf, pos).cmdId]

\* A loop that takes the trailing partial record for a complete one.
RECURSIVE DispatchNoLengthCheck(_, _, _)
DispatchNoLengthCheck(d, buf, pos) ==
    IF pos < buf.len
    THEN DispatchNoLengthCheck(
             mcba_usb_process_rx([d EXCEPT !.processed = Append(@, Seen(buf, pos))],
                                 MsgAt(buf, pos)),
             buf, pos + MsgSize)
    ELSE d

\* The loop of mcba_usb_read_bulk_callback over the buffer, from offset pos.
RECURSIVE Dispatch(_, _, _)
Dispatch(d, buf, pos) ==
    IF pos < buf.len
    THEN IF pos + MsgSize > buf.len
         THEN [d EXCEPT !.fmt_err = @ + 1]
         ELSE Dispatch(
                  mcba_usb_process_rx([d EXCEPT !.processed = Append(@, Seen(buf, pos))],
                                      MsgAt(buf, pos)),
                  buf, pos + MsgSize)
    ELSE d

\* mcba_net_get_berr_counter
mcba_net_get_berr_counter(p) == <<p.bec.txerr, p.bec.rxerr>>

\* What the handlers of one dispatch reported.
Reported(d) ==
    [processed |-> d.processed, fmt_err |-> d.fmt_err, warns |-> d.warns,
     frames |-> d.frames, notices |-> d.notices]

\* A callback that gives up the transfer after any failed completion.
read_cb_drops_failed(urb, resubmit) ==
    IF ~present \/ urb.status # "0"
    THEN /\ ev' = [op |-> "read_cb", status |-> urb.status,
                   len |-> urb.buf.len, dispatched |-> FALSE,
                   resubmit |-> "none",
                   out |-> Reported(DispatchStart(priv, stats))]
         /\ UNCHANGED <<priv, stats, present, queue, rx_submitted>>
    ELSE LET d == Dispatch(DispatchStart(priv, stats), urb.buf, 0)
         IN  /\ priv' = d.priv
             /\ stats' = d.stats
             /\ rx_submitted' = IF resubmit = "0" THEN rx_submitted + 1
                                ELSE rx_submitted
             /\ present' = (resubmit # "ENODEV")
             /\ queue' = IF resubmit = "ENODEV" THEN "stopped" ELSE queue
             /\ ev' = [op |-> "read_cb", status |-> urb.status,
                       len |-> urb.buf.len, dispatched |-> TRUE,
                       resubmit |-> resubmit, out |-> Reported(d)]

\* mcba_usb_read_bulk_callback for the completed receive transfer urb, with
\* the result of its resubmission.
mcba_usb_read_bulk_callback(urb, resubmit) ==
    IF ~present \/ urb.status \in {"ENOENT", "ESHUTDOWN"}
    THEN /\ ev' = [op |-> "read_cb", status |-> urb.status,
                   len |-> urb.buf.len, dispatched |-> FALSE,
                   resubmit |-> "none",
                   out |-> Reported(DispatchStart(priv, stats))]
         /\ UNCHANGED <<priv, stats, present, queue, rx_submitted>>
    ELSE LET d == IF urb.status = "0"
                  THEN Dispatch(DispatchStart(priv, stats), urb.buf, 0)
                  ELSE DispatchStart(priv, stats)
         IN  /\ priv' = d.priv
             /\ stats' = d.stats
             /\ rx_submitted' = IF resubmit = "0" THEN rx_submitted + 1
                                ELSE rx_submitted
             /\ present' = (resubmit # "ENODEV")
             /\ queue' = IF resubmit = "ENODEV" THEN "stopped" ELSE queue
             /\ ev' = [op |-> "read_cb", status |-> urb.status,
                       len |-> urb.buf.len, dispatched |-> (urb.status = "0"),
                       resubmit |-> resubmit, out |-> Reported(d)]

\* The complete records of a buffer.
CompleteRecs(buf) == SubSeq(buf.recs, 1, buf.len \div MsgSize)

\* The step is the receive callback of the transfer rx_urb.
ReadCbStep == rx_urb # NoRxUrb /\ rx_urb' = NoRxUrb

\* The callback dispatches the buffer of the transfer rx_urb.
Dispatches == present /\ rx_urb.status = "0"

\* The buffers of at most maxlen bytes with records of recs.
RxBuffers(maxlen, recs) ==
    UNION { [len : {l}, recs : [1 .. RecsIn(l) -> recs]] : l \in 0 .. maxlen }

EmptyBuf == [len |-> 0, recs |-> <<>>]

\* The USB core completes an outstanding receive transfer.  The buffer of a
\* transfer that failed is not read.
RxComplete ==
    /\ rx_urb = NoRxUrb
    /\ rx_submitted > 0
    /\ stats.rx_packets < MaxRxPackets
    /\ \E status \in RxStatuses :
         \E buf \in IF status = "0" THEN RxBuffers(MaxRxLen, RxRecs)
                     ELSE {EmptyBuf} :
            rx_urb' = [status |-> status, buf |-> buf]
    /\ rx_submitted' = rx_submitted - 1
    /\ ev' = [op |-> "rx_complete"]
    /\ UNCHANGED <<tx_context, tx_submitted, echo_skb, stats, queue, present,
                   pc, priv, hist, life>>

\* The callback of the completed receive transfer rx_urb.
ReadBulkCallbackStep ==
    /\ rx_urb # NoRxUrb
    /\ \E resubmit \in SubmitResults :
         mcba_usb_read_bulk_callback(rx_urb, resubmit)
    /\ rx_urb' = NoRxUrb
    /\ UNCHANGED <<tx_context, tx_submitted, echo_skb, pc>>

ReadBulkCallback == ReadBulkCallbackStep /\ UNCHANGED <<hist, life>>

NextRx == RxComplete \/ ReadBulkCallback

SpecRx == Init /\ [][NextRx]_vars

----------------------------------------------------------------------------
(* Claims on the receive path *)

\* C7: the dispatch of a buffer of length L hands exactly the floor(L / S)
\* complete records to the handlers, in buffer order, S = MsgSize; it logs
\* one format error if L is no multiple of S and none if it is; no record
\* it reads reaches past L.
C7_DispatchRecords ==
    (ev.op = "read_cb" /\ ev.dispatched)
    => /\ Len(ev.out.processed) = ev.len \div MsgSize
       /\ \A k \in 1 .. Len(ev.out.processed) :
            /\ ev.out.processed[k].pos = (k - 1) * MsgSize
            /\ ev.out.processed[k].pos + MsgSize <= ev.len
       /\ ev.out.fmt_err = IF ev.len % MsgSize # 0 THEN 1 ELSE 0

\* A buffer of two records and a partial one was dispatched.
C7_Witness ==
    /\ ev.op = "read_cb"
    /\ ev.dispatched
    /\ ev.len = 2 * MsgSize + 1
    /\ Len(ev.out.processed) = 2
    /\ ev.out.fmt_err = 1

IsKnown(rec) == rec.cmdId \in KnownRxCmds

\* C8: every complete record with an unknown command id is logged as one
\* warning and dispatch goes on to the records after it; the device record,
\* the statistics and the frames delivered are those of the buffer without
\* its unknown records.
C8_UnknownSkipped ==
    [][ (ReadCbStep /\ Dispatches)
        => LET recs == CompleteRecs(rx_urb.buf)
               kept == SelectSeq(recs, IsKnown)
               d    == Dispatch(DispatchStart(priv, stats),
                                [len |-> Len(kept) * MsgSize, recs |-> kept], 0)
           IN  /\ ev'.out.warns = Len(recs) - Len(kept)
               /\ Len(ev'.out.processed) = Len(recs)
               /\ priv' = d.priv
               /\ stats' = d.stats
               /\ ev'.out.frames = d.frames
               /\ ev'.out.notices = d.notices ]_vars

\* A record with an unknown command id was dispatched, and after it a
\* keep-alive report of the CAN controller, which took effect.
C8_Witness ==
    /\ ev.op = "read_cb"
    /\ ev.dispatched
    /\ Len(ev.out.processed) = 2
    /\ ev.out.processed[1].cmdId \notin KnownRxCmds
    /\ ev.out.processed[2].cmdId = "I_AM_ALIVE_FROM_CAN"
    /\ ev.out.warns = 1
    /\ priv.bec.txerr = 5

\* C9: no frame handed to the stack has more than 8 bytes copied into it
\* or a data length code above 8.
C9_DlcAtMost8 ==
    ev.op = "read_cb"
    => \A k \in 1 .. Len(ev.out.frames) :
         /\ ev.out.frames[k].copied <= CAN_MAX_DLEN
         /\ ev.out.frames[k].can_dlc \in 0 .. CAN_MAX_DLEN

\* The counters of the last keep-alive report of the CAN controller among
\* recs; old if there is none.
LastReport(recs, old) ==
    LET ks == {k \in 1 .. Len(recs) : recs[k].cmdId = "I_AM_ALIVE_FROM_CAN"}
    IN  IF ks = {} THEN old
        ELSE LET k == CHOOSE m \in ks : \A n \in ks : n <= m
             IN  <<recs[k].tx_err_cnt, recs[k].rx_err_cnt>>

\* C10: after a receive callback, mcba_net_get_berr_counter returns the
\* (tx_err, rx_err) pair of the last keep-alive report of the CAN
\* controller the callback dispatched; without one it returns what it
\* returned before.
C10_BerrFromLastKeepAlive ==
    [][ ReadCbStep
        => mcba_net_get_berr_counter(priv') =
             LastReport(IF Dispatches THEN CompleteRecs(rx_urb.buf) ELSE <<>>,
                        mcba_net_get_berr_counter(priv)) ]_vars

\* A keep-alive report of the CAN controller that was not the first one
\* has set the counters to (5, 1).
C10_Witness ==
    /\ ev.op = "read_cb"
    /\ ev.dispatched
    /\ ev.out.notices = <<>>
    /\ \E k \in 1 .. Len(ev.out.processed) :
         ev.out.processed[k].cmdId = "I_AM_ALIVE_FROM_CAN"
    /\ mcba_net_get_berr_counter(priv) = <<5, 1>>

\* C14: a receive callback submits its transfer again, once, exactly when
\* the device is present and the completion is no cancellation (-ENOENT,
\* -ESHUTDOWN), whatever the status and the dispatch were; the transfer is
\* outstanding again when that submission succeeds.
C14_ResubmitOnce ==
    [][ ReadCbStep
        => LET again == present /\ rx_urb.status \notin {"ENOENT", "ESHUTDOWN"}
           IN  /\ (ev'.resubmit # "none") = again
               /\ rx_submitted' = IF again /\ ev'.resubmit = "0"
                                  THEN rx_submitted + 1 ELSE rx_submitted ]_vars

\* A transfer was submitted again after a dispatch that logged a format
\* error and a warning about an unknown command id.
C14_Witness ==
    /\ ev.op = "read_cb"
    /\ ev.dispatched
    /\ ev.out.fmt_err = 1
    /\ ev.out.warns >= 1
    /\ ev.resubmit = "0"
    /\ rx_submitted = MCBA_MAX_RX_URBS

----------------------------------------------------------------------------
(* SpecKa: the device record under keep-alive reports.                     *)
(* SpecState: the device record under keep-alive reports of the USB        *)
(* controller and writes of the termination attribute                      *)

\* Firmware versions a keep-alive report carries: the version the driver
\* was tested against, another one, and the bytes that equal
\* MCBA_VER_UNDEFINED.
KaVersions ==
    { <<MCBA_VER_USB_MAJOR, MCBA_VER_USB_MINOR>>,
      <<MCBA_VER_USB_MAJOR + 1, MCBA_VER_USB_MINOR + 1>>,
      <<MCBA_VER_UNDEFINED, MCBA_VER_UNDEFINED>> }

\* Values of a termination byte: the two settings, and bytes that are none.
TermBytes == {0, 1, 2, MCBA_VER_UNDEFINED}

\* The keep-alive reports of SpecKa.
KaRecs ==
    { Rec("I_AM_ALIVE_FROM_USB", 0, FALSE, 0, 0, v[1], v[2], t) :
        v \in KaVersions, t \in {0, 1} }
    \cup { Rec("I_AM_ALIVE_FROM_CAN", 0, FALSE, 3, 1, v[1], v[2], 0) :
             v \in KaVersions }

\* The keep-alive reports of SpecState.
TermRecs ==
    { Rec("I_AM_ALIVE_FROM_USB", 0, FALSE, 0, 0,
          MCBA_VER_USB_MAJOR, MCBA_VER_USB_MINOR, t) : t \in TermBytes }

\* The source of a keep-alive report.
KaSource(rec) ==
    IF rec.cmdId = "I_AM_ALIVE_FROM_USB" THEN "USB"
    ELSE IF rec.cmdId = "I_AM_ALIVE_FROM_CAN" THEN "CAN"
    ELSE "none"

\* The sources with a report in the sequence of first reports h.
SourcesIn(h) == {h[k].src : k \in 1 .. Len(h)}

\* h with the first report of every source that has none in h yet, from
\* the records recs in order.
RECURSIVE FirstReports(_, _)
FirstReports(h, recs) ==
    IF recs = <<>> THEN h
    ELSE LET r == Head(recs)
             src == KaSource(r)
         IN  FirstReports(
                 IF src = "none" \/ src \in SourcesIn(h) THEN h
                 ELSE Append(h, [src |-> src, major |-> r.soft_ver_major,
                                 minor |-> r.soft_ver_minor]),
                 Tail(recs))

\* The USB core completes a receive transfer that carries one keep-alive
\* report.
KaComplete(recs) ==
    /\ rx_urb = NoRxUrb
    /\ rx_submitted > 0
    /\ \E rec \in recs :
         rx_urb' = [status |-> "0", buf |-> [len |-> MsgSize, recs |-> <<rec>>]]
    /\ rx_submitted' = rx_submitted - 1
    /\ ev' = [op |-> "rx_complete"]
    /\ UNCHANGED <<tx_context, tx_submitted, echo_skb, stats, queue, present,
                   pc, priv, hist, life>>

\* The receive callback; hist keeps the first report dispatched of each
\* source.
KaReadBulkCallback ==
    /\ ReadBulkCallbackStep
    /\ hist' = FirstReports(hist, IF Dispatches THEN CompleteRecs(rx_urb.buf)
                                  ELSE <<>>)
    /\ UNCHANGED life

\* termination_store with the byte sscanf has read, up to the call of
\* mcba_usb_xmit.
TerminationStoreStep ==
    /\ pc["ctl"].at = "idle"
    /\ TxOps < MaxTxOps
    /\ \E v \in TermBytes :
         /\ IF v = 0 \/ v = 1
            THEN /\ priv' = [priv EXCEPT !.termination_state = v]
                 /\ pc' = [pc EXCEPT !["ctl"] =
                             [at |-> "scan", i |-> 0,
                              msg |-> CmdMsg("SETUP_TERMINATION_RESISTANCE"),
                              skb |-> NoSkb]]
            ELSE UNCHANGED <<priv, pc>>
         /\ ev' = [op |-> "termination_store", val |-> v]
    /\ UNCHANGED <<tx_context, tx_submitted, echo_skb, stats, queue, present,
                   rx_submitted, rx_urb, life>>

TerminationStore == TerminationStoreStep /\ UNCHANGED hist

NextKa == KaComplete(KaRecs) \/ KaReadBulkCallback

SpecKa == Init /\ [][NextKa]_vars

NextState ==
    \/ KaComplete(TermRecs)
    \/ ReadBulkCallback
    \/ TerminationStore
    \/ GetFreeCtxScan("ctl")
    \/ XmitBusy("ctl")
    \/ XmitTake("ctl")
    \/ WriteBulkCallback

SpecState == Init /\ [][NextState]_vars

----------------------------------------------------------------------------
(* Claims on the device record *)

\* The notices of one source among ns.
NoticesOf(ns, src) == SelectSeq(ns, LAMBDA n : n.src = src)

\* The reports of one source among recs.
ReportsOf(recs, src) == SelectSeq(recs, LAMBDA r : KaSource(r) = src)

\* C11: a receive callback announces the firmware version of a source
\* only if no report of that source was dispatched before, and then once,
\* for the first report of that source in its buffer.
C11_FirstSeenOnce ==
    [][ (ReadCbStep /\ Dispatches)
        => \A src \in {"USB", "CAN"} :
             LET got  == NoticesOf(ev'.out.notices, src)
                 reps == ReportsOf(CompleteRecs(rx_urb.buf), src)
             IN  IF src \in SourcesIn(hist) \/ reps = <<>>
                 THEN got = <<>>
                 ELSE /\ Len(got) = 1
                      /\ got[1].major = reps[1].soft_ver_major
                      /\ got[1].minor = reps[1].soft_ver_minor ]_vars

\* The firmware version the device record stores for a source.
StoredVersion(p, src) ==
    IF src = "USB" THEN <<p.pic_usb_sw_ver_major, p.pic_usb_sw_ver_minor>>
    ELSE <<p.pic_can_sw_ver_major, p.pic_can_sw_ver_minor>>

\* C12: the version stored for a source is undefined until a report of
\* that source is dispatched and from then on the version of the first
\* report of that source.
C12_VersionLatch ==
    \A src \in {"USB", "CAN"} :
       StoredVersion(priv, src) =
          IF src \in SourcesIn(hist)
          THEN LET f == CHOOSE e \in {hist[k] : k \in 1 .. Len(hist)} : e.src = src
               IN  <<f.major, f.minor>>
          ELSE <<MCBA_VER_UNDEFINED, MCBA_VER_UNDEFINED>>

\* C20: the stored termination state is 0 or 1; a dispatch with reports of
\* the USB controller leaves it at the byte of the last of them, a write
\* of 0 or 1 to the termination attribute leaves it at that value, a write
\* of another value changes nothing and sends no command, and no other
\* step changes it.
C20_TerminationMirror ==
    [][ /\ priv'.termination_state \in {0, 1}
        /\ IF ReadCbStep /\ Dispatches
              /\ ReportsOf(CompleteRecs(rx_urb.buf), "USB") # <<>>
           THEN LET reps == ReportsOf(CompleteRecs(rx_urb.buf), "USB")
                IN  priv'.termination_state = reps[Len(reps)].termination_state
           ELSE IF ev'.op = "termination_store" /\ ev'.val \in {0, 1}
           THEN priv'.termination_state = ev'.val
           ELSE IF ev'.op = "termination_store"
           THEN /\ priv' = priv
                /\ pc' = pc
                /\ tx_context' = tx_context
                /\ tx_submitted' = tx_submitted
           ELSE priv'.termination_state = priv.termination_state ]_vars

\* C17: while the device is marked detached no transfer is submitted: the
\* outstanding transmit transfers and the outstanding receive transfers do
\* not grow.
C17_NoSubmitWhenDetached ==
    [][ ~present
        => /\ BagCardinality(tx_submitted') <= BagCardinality(tx_submitted)
           /\ rx_submitted' <= rx_submitted ]_vars

----------------------------------------------------------------------------
(* SpecBit: mcba_net_set_bittiming *)

\* mcba_usb.h: the clock of the CAN controller and the bit rates of the
\* case labels of mcba_net_set_bittiming, as the specification and the
\* message of the default case list them.
MCBA_CAN_CLOCK == 40000000

MCBA_BITRATE_20_KBPS_40MHZ == 20000
MCBA_BITRATE_33_3KBPS_40MHZ == 33333
MCBA_BITRATE_50KBPS_40MHZ == 50000
MCBA_BITRATE_80KBPS_40MHZ == 80000
MCBA_BITRATE_83_3KBPS_40MHZ == 83333
MCBA_BITRATE_100KBPS_40MHZ == 100000
MCBA_BITRATE_125KBPS_40MHZ == 125000
MCBA_BITRATE_150KBPS_40MHZ == 150000
MCBA_BITRATE_175KBPS_40MHZ == 175000
MCBA_BITRATE_200KBPS_40MHZ == 200000
MCBA_BITRATE_225KBPS_40MHZ == 225000
MCBA_BITRATE_250KBPS_40MHZ == 250000
MCBA_BITRATE_275KBPS_40MHZ == 275000
MCBA_BITRATE_300KBPS_40MHZ == 300000
MCBA_BITRATE_500KBPS_40MHZ == 500000
MCBA_BITRATE_625KBPS_40MHZ == 625000
MCBA_BITRATE_800KBPS_40MHZ == 800000
MCBA_BITRATE_1000KBPS_40MHZ == 1000000

\* One case of the switch: its label, the arguments of
\* mcba_net_calc_bittiming and the argument of mcba_usb_xmit_change_bitrate.
BtCase(rate, sjw, prop, seg1, seg2, brp, kbps) ==
    [rate |-> rate, sjw |-> sjw, prop |-> prop, seg1 |-> seg1, seg2 |-> seg2,
     brp |-> brp, kbps |-> kbps]

\* The cases of the switch of mcba_net_set_bittiming.
BtCases ==
    {
       BtCase(MCBA_BITRATE_20_KBPS_40MHZ, 1, 5, 8, 6, 100, 20),
       BtCase(MCBA_BITRATE_33_3KBPS_40MHZ, 1, 8, 8, 8, 48, 33),
       BtCase(MCBA_BITRATE_50KBPS_40MHZ, 1, 8, 7, 4, 40, 50),
       BtCase(MCBA_BITRATE_80KBPS_40MHZ, 1, 8, 8, 8, 20, 80),
       BtCase(MCBA_BITRATE_83_3KBPS_40MHZ, 1, 8, 8, 7, 20, 83),
       BtCase(MCBA_BITRATE_100KBPS_40MHZ, 1, 1, 5, 3, 40, 100),
       BtCase(MCBA_BITRATE_125KBPS_40MHZ, 1, 3, 8, 8, 16, 125),
       BtCase(MCBA_BITRATE_150KBPS_40MHZ, 1, 8, 6, 4, 14, 150),
       BtCase(MCBA_BITRATE_175KBPS_40MHZ, 1, 8, 6, 4, 12, 175),
       BtCase(MCBA_BITRATE_200KBPS_40MHZ, 1, 8, 8, 8, 8, 200),
       BtCase(MCBA_BITRATE_225KBPS_40MHZ, 1, 8, 8, 5, 8, 225),
       BtCase(MCBA_BITRATE_250KBPS_40MHZ, 1, 3, 8, 8, 8, 250),
       BtCase(MCBA_BITRATE_275KBPS_40MHZ, 1, 8, 8, 7, 6, 275),
       BtCase(MCBA_BITRATE_300KBPS_40MHZ, 1, 8, 8, 5, 6, 300),
       BtCase(MCBA_BITRATE_500KBPS_40MHZ, 1, 3, 8, 8, 4, 500),
       BtCase(MCBA_BITRATE_625KBPS_40MHZ, 1, 1, 4, 2, 8, 625),
       BtCase(MCBA_BITRATE_800KBPS_40MHZ, 1, 8, 8, 8, 2, 800),
       BtCase(MCBA_BITRATE_1000KBPS_40MHZ, 1, 3, 8, 8, 2, 1000)
    }

\* mcba_net_calc_bittiming.  Its arithmetic is that of u32; with the
\* arguments of the cases no product passes 100000, so nothing wraps.
mcba_net_calc_bittiming(sjw, prop, seg1, seg2, brp) ==
    LET tq  == (brp * 1000) \div (MCBA_CAN_CLOCK \div 1000000)
        all == sjw + prop + seg1 + seg2
    IN  [sjw |-> sjw, prop_seg |-> prop, phase_seg1 |-> seg1,
         phase_seg2 |-> seg2, brp |-> brp, tq |-> tq,
         bitrate |-> 1000000000 \div (all * tq),
         sample_point |-> ((sjw + prop + seg1) * 1000) \div all]

\* The message mcba_usb_xmit_change_bitrate builds.
mcba_usb_xmit_change_bitrate_msg(bitrate) ==
    [cmdId |-> "CHANGE_BIT_RATE", dlc |-> 0,
     bitrate_hi |-> (bitrate \div 256) % 256, bitrate_lo |-> bitrate % 256]

\* A switch whose default case falls into the case of 1000 kbit/s.
set_bittiming_default_falls_through(bt) ==
    LET hit == {c \in BtCases : c.rate = bt.bitrate}
        c   == IF hit = {}
               THEN CHOOSE d \in BtCases : d.rate = MCBA_BITRATE_1000KBPS_40MHZ
               ELSE CHOOSE d \in hit : TRUE
    IN  [ret |-> "0",
         bt |-> mcba_net_calc_bittiming(c.sjw, c.prop, c.seg1, c.seg2, c.brp),
         cmd |-> <<mcba_usb_xmit_change_bitrate_msg(c.kbps)>>]

\* mcba_net_set_bittiming on the bit timing bt: what it returns, the bit
\* timing it leaves and the command it hands to mcba_usb_xmit_cmd.
mcba_net_set_bittiming(bt) ==
    LET hit == {c \in BtCases : c.rate = bt.bitrate}
    IN  IF hit = {} THEN [ret |-> "EINVAL", bt |-> bt, cmd |-> <<>>]
        ELSE LET c == CHOOSE d \in hit : TRUE
             IN  [ret |-> "0",
                  bt |-> mcba_net_calc_bittiming(c.sjw, c.prop, c.seg1,
                                                 c.seg2, c.brp),
                  cmd |-> <<mcba_usb_xmit_change_bitrate_msg(c.kbps)>>]

\* Bit rates a caller asks for: those of the cases, their neighbours, and
\* the examples of the specification.
BitrateInputs ==
    {c.rate : c \in BtCases}
    \cup {c.rate + 1 : c \in BtCases}
    \cup {0, 10000, 19999, 33000, 83000}

\* The CAN core stores the bit rate asked for, or keeps the stored bit
\* timing, and calls do_set_bittiming.  In SpecBit it does so when the
\* command of the call before has completed.
SetBitrateRequest ==
    /\ pc["ctl"].at = "idle"
    /\ TxOps < MaxTxOps
    /\ tx_submitted = EmptyBag
    /\ \E b \in BitrateInputs \cup {priv.bittiming.bitrate} :
         /\ priv' = [priv EXCEPT !.bittiming.bitrate = b]
         /\ ev' = [op |-> "bitrate_request", bitrate |-> b]
    /\ pc' = [pc EXCEPT !["ctl"].at = "set_bittiming"]
    /\ UNCHANGED <<tx_context, tx_submitted, echo_skb, stats, queue, present,
                   rx_submitted, rx_urb, hist, life>>

\* mcba_net_set_bittiming, up to the call of mcba_usb_xmit.
SetBittiming ==
    /\ pc["ctl"].at = "set_bittiming"
    /\ LET r == mcba_net_set_bittiming(priv.bittiming)
       IN  /\ priv' = [priv EXCEPT !.bittiming = r.bt]
           /\ pc' = [pc EXCEPT !["ctl"] =
                       IF r.cmd = <<>> THEN PcIdle
                       ELSE [at |-> "scan", i |-> 0, msg |-> r.cmd[1],
                             skb |-> NoSkb]]
           /\ ev' = [op |-> "set_bittiming", ret |-> r.ret,
                     asked |-> priv.bittiming.bitrate]
    /\ UNCHANGED <<tx_context, tx_submitted, echo_skb, stats, queue, present,
                   rx_submitted, rx_urb, hist, life>>

NextBit ==
    \/ SetBitrateRequest
    \/ SetBittiming
    \/ GetFreeCtxScan("ctl")
    \/ XmitBusy("ctl")
    \/ XmitTake("ctl")
    \/ WriteBulkCallback

SpecBit == Init /\ [][NextBit]_vars

----------------------------------------------------------------------------
(* Claims on the bit timing *)

\* The step is mcba_net_set_bittiming.
SetBittimingStep ==
    pc["ctl"].at = "set_bittiming" /\ pc'["ctl"].at # "set_bittiming"

\* The bit rates the specification documents.
DocumentedBitrates ==
    {20000, 33333, 50000, 80000, 83333, 100000, 125000, 150000, 175000,
     200000, 225000, 250000, 275000, 300000, 500000, 625000, 800000, 1000000}

\* C13: mcba_net_set_bittiming returns 0 exactly for the 18 documented bit
\* rates; for any other it returns -EINVAL, leaves the device record with
\* its bit timing as it was, takes no transmit context and sends no
\* command.
C13_OnlyTableBitrates ==
    [][ SetBittimingStep
        => IF priv.bittiming.bitrate \in DocumentedBitrates
           THEN ev'.ret = "0"
           ELSE /\ ev'.ret = "EINVAL"
                /\ priv' = priv
                /\ tx_context' = tx_context
                /\ tx_submitted' = tx_submitted
                /\ pc'["ctl"] = PcIdle ]_vars

\* A bit rate next to a documented one was refused.
C13_Witness ==
    /\ ev.op = "set_bittiming"
    /\ ev.ret = "EINVAL"
    /\ ev.asked = 1000001
    /\ priv.bittiming.bitrate = 1000001

\* C19: for a bit rate of the table, the bit rate mcba_net_set_bittiming
\* stores is the one asked for, and mcba_net_set_bittiming succeeds again
\* on the bit timing it stored.
C19_StoredBitrateIsRequested ==
    [][ (SetBittimingStep /\ priv.bittiming.bitrate \in DocumentedBitrates)
        => /\ priv'.bittiming.bitrate = priv.bittiming.bitrate
           /\ mcba_net_set_bittiming(priv'.bittiming).ret = "0" ]_vars

----------------------------------------------------------------------------
(* SpecLife: the adapter from mcba_usb_probe to mcba_usb_disconnect *)

\* What mcba_usb_xmit works on.
XmitState ==
    [tx_context |-> tx_context, tx_submitted |-> tx_submitted,
     echo_skb |-> echo_skb, stats |-> stats, queue |-> queue,
     present |-> present]

\* mcba_usb_xmit run without interruption on the state s, the transfer
\* ending as how says.
mcba_usb_xmit(s, msg, skb, how) ==
    LET i == mcba_usb_get_free_ctx(s.tx_context)
    IN  IF i = NullCtx THEN [s EXCEPT !.queue = "stopped"]
        ELSE LET ctxs == CtxFill(CtxTake(s.tx_context, i), i, msg, skb)
                 put  == IF skb # NoSkb THEN can_put_echo_skb(s.echo_skb, i)
                         ELSE s.echo_skb
             IN  IF how = "ok"
                 THEN [s EXCEPT
                         !.tx_context = ctxs,
                         !.tx_submitted = @ (+) SetToBag({[ctx |-> i, msg |-> msg]}),
                         !.echo_skb = put]
                 ELSE [s EXCEPT
                         !.tx_context = ctxs,
                         !.echo_skb = can_clear_echo_skb(put, i),
                         !.stats.tx_dropped = @ + 1,
                         !.present = IF how = "failed_enodev" THEN FALSE ELSE @,
                         !.queue = IF how = "failed_enodev" /\ s.present
                                   THEN "stopped" ELSE @]

\* The message mcba_usb_xmit_read_fw_ver builds for the controller pic.
mcba_usb_xmit_read_fw_ver_msg(pic) ==
    [cmdId |-> "READ_FW_VERSION", dlc |-> 0, pic |-> pic]

\* n times the entry e.
RECURSIVE Times(_, _)
Times(n, e) == IF n = 0 THEN <<>> ELSE <<e>> \o Times(n - 1, e)

\* How the loop of mcba_usb_start ends: after all the receive transfers,
\* or after i of them with the error that broke it.
StartRuns ==
    {[i |-> MCBA_MAX_RX_URBS, err |-> "0"]}
    \cup [i : 0 .. (MCBA_MAX_RX_URBS - 1), err : {"ENOMEM", "ENODEV", "EIO"}]

\* mcba_usb_start on the state s: the state it leaves, the receive
\* transfers it submitted, what it returns and what it did, in order.
mcba_usb_start(s, run, how1, how2) ==
    IF run.i = 0
    THEN [s |-> s, rx |-> 0, ret |-> run.err, log |-> <<>>]
    ELSE LET s0 == [s EXCEPT !.tx_context = mcba_init_ctx]
             s1 == mcba_usb_xmit(s0, mcba_usb_xmit_read_fw_ver_msg("USB"),
                                 NoSkb, how1)
             s2 == mcba_usb_xmit(s1, mcba_usb_xmit_read_fw_ver_msg("CAN"),
                                 NoSkb, how2)
         IN  [s |-> s2, rx |-> run.i, ret |-> run.err,
              log |-> Times(run.i, "rx_submit")
                      \o <<"init_ctx", "read_fw_ver USB", "read_fw_ver CAN">>]

\* The adapter has been probed and its state is not released.
LifeLive == life.at \notin {"unbound", "freed", "gone"}

\* The state mcba_usb_probe starts from: the zeroed allocation of
\* alloc_candev, the firmware versions undefined, the anchors empty.
InitLife ==
    /\ tx_context = [s \in Slots |-> [ndx |-> 0, can |-> FALSE, dlc |-> 0]]
    /\ tx_submitted = EmptyBag
    /\ echo_skb = [s \in Slots |-> FALSE]
    /\ stats = StatsInit
    /\ queue = "stopped"
    /\ present = TRUE
    /\ pc = [t \in Threads |-> PcIdle]
    /\ priv = PrivInit
    /\ rx_submitted = 0
    /\ rx_urb = NoRxUrb
    /\ ev = EvNone
    /\ hist = <<>>
    /\ life = [at |-> "unbound", back |-> "none", anchored |-> 0]

\* mcba_usb_probe from the call of mcba_usb_start on.  rest: what fails
\* after mcba_usb_start, if anything.
Probe ==
    /\ life.at = "unbound"
    /\ \E run \in StartRuns, how1 \in XmitOutcomes, how2 \in XmitOutcomes,
          rest \in {"0", "register_candev", "device_create_file"} :
         LET r  == mcba_usb_start(XmitState, run, how1, how2)
             ok == r.ret = "0" /\ rest = "0"
         IN  /\ tx_context' = r.s.tx_context
             /\ tx_submitted' = r.s.tx_submitted
             /\ echo_skb' = r.s.echo_skb
             /\ stats' = r.s.stats
             /\ queue' = r.s.queue
             /\ present' = (r.s.present /\ r.ret # "ENODEV")
             /\ rx_submitted' = r.rx
             /\ life' = [at |-> IF ok THEN "down" ELSE "freed",
                         back |-> IF ok THEN "none" ELSE "probe",
                         anchored |-> r.rx]
             /\ ev' = [op |-> "probe",
                       ret |-> IF r.ret # "0" THEN r.ret
                               ELSE IF rest = "0" THEN "0" ELSE "err",
                       start |-> [rx |-> r.rx, ret |-> r.ret, log |-> r.log]]
    /\ UNCHANGED <<pc, priv, rx_urb, hist>>

\* mcba_usb_open
Open ==
    /\ life.at = "down"
    /\ \E err \in {"0", "err"} :
         /\ life' = [life EXCEPT !.at = IF err = "0" THEN "up" ELSE @]
         /\ queue' = IF err = "0" THEN "running" ELSE queue
         /\ ev' = [op |-> "open", ret |-> err]
    /\ UNCHANGED <<tx_context, tx_submitted, echo_skb, stats, present, pc,
                   priv, rx_submitted, rx_urb, hist>>

\* The stack sends a frame through the open device.
LifeStartXmit == life.at = "up" /\ StartXmit(ConcFrames)

\* The buffer of a receive transfer of SpecLife.
LifeBuf ==
    [len |-> MsgSize,
     recs |-> <<Rec("NOTHING_TO_SEND", 0, FALSE, 0, 0, 0, 0, 0)>>]

\* The USB core completes an outstanding receive transfer.  It has taken
\* the transfer off its anchor; a transfer the callback submitted again is
\* on no anchor.
LifeRxComplete ==
    /\ LifeLive
    /\ rx_urb = NoRxUrb
    /\ rx_submitted > 0
    /\ \E status \in {"0", "EPROTO"} :
         rx_urb' = [status |-> status,
                    buf |-> IF status = "0" THEN LifeBuf ELSE EmptyBuf]
    /\ \E anch \in BOOLEAN :
         /\ anch => life.anchored > 0
         /\ ~anch => rx_submitted > life.anchored
         /\ life' = [life EXCEPT !.anchored = IF anch THEN @ - 1 ELSE @]
    /\ rx_submitted' = rx_submitted - 1
    /\ ev' = [op |-> "rx_complete"]
    /\ UNCHANGED <<tx_context, tx_submitted, echo_skb, stats, queue, present,
                   pc, priv, hist>>

\* usb_kill_anchored_urbs(&priv->rx_submitted) in mcba_usb_close: a
\* transfer on the anchor completes with -ENOENT.
LifeRxKill ==
    /\ life.at = "closing_rx"
    /\ rx_urb = NoRxUrb
    /\ life.anchored > 0
    /\ rx_urb' = [status |-> "ENOENT", buf |-> EmptyBuf]
    /\ life' = [life EXCEPT !.anchored = @ - 1]
    /\ rx_submitted' = rx_submitted - 1
    /\ ev' = [op |-> "rx_complete"]
    /\ UNCHANGED <<tx_context, tx_submitted, echo_skb, stats, queue, present,
                   pc, priv, hist>>

\* mcba_usb_close up to usb_kill_anchored_urbs(&priv->rx_submitted).  The
\* stack calls it when no ndo_start_xmit runs.
CloseBegin ==
    /\ life.at = "up"
    /\ pc["net"].at = "idle"
    /\ life' = [life EXCEPT !.at = "closing_rx", !.back = "down"]
    /\ queue' = "stopped"
    /\ ev' = [op |-> "close"]
    /\ UNCHANGED <<tx_context, tx_submitted, echo_skb, stats, present, pc,
                   priv, rx_submitted, rx_urb, hist>>

\* mcba_urb_unlink: the receive anchor is drained, the transmit transfers
\* are killed next.  From here to the end of mcba_usb_close every
\* transmit completion is that of a killed transfer.
CloseRxDone ==
    /\ life.at = "closing_rx"
    /\ life.anchored = 0
    /\ rx_urb = NoRxUrb
    /\ life' = [life EXCEPT !.at = "closing_tx"]
    /\ ev' = [op |-> "kill_tx"]
    /\ UNCHANGED <<tx_context, tx_submitted, echo_skb, stats, queue, present,
                   pc, priv, rx_submitted, rx_urb, hist>>

\* The end of mcba_usb_close; in mcba_usb_disconnect, free_candev follows
\* unregister_netdev.
CloseEnd ==
    /\ life.at = "closing_tx"
    /\ tx_submitted = EmptyBag
    /\ life' = [life EXCEPT !.at = IF life.back = "disconnect" THEN "freed"
                                   ELSE "down"]
    /\ ev' = [op |-> "closed"]
    /\ UNCHANGED <<tx_context, tx_submitted, echo_skb, stats, queue, present,
                   pc, priv, rx_submitted, rx_urb, hist>>

\* mcba_usb_disconnect up to free_candev: unregister_netdev closes the
\* device when it is open.
Disconnect ==
    /\ life.at \in {"down", "up"}
    /\ pc["net"].at = "idle"
    /\ life' = [life EXCEPT !.at = IF life.at = "up" THEN "closing_rx"
                                   ELSE "freed",
                            !.back = "disconnect"]
    /\ queue' = "stopped"
    /\ ev' = [op |-> "disconnect"]
    /\ UNCHANGED <<tx_context, tx_submitted, echo_skb, stats, present, pc,
                   priv, rx_submitted, rx_urb, hist>>

\* mcba_urb_unlink at the end of mcba_usb_disconnect, on the anchors of the
\* state free_candev has released: it kills the transfers the anchors
\* held, or it does not get that far.
UnlinkFreed ==
    /\ life.at = "freed"
    /\ life.back = "disconnect"
    /\ \E kills \in BOOLEAN :
         /\ rx_submitted' = IF kills THEN rx_submitted - life.anchored
                            ELSE rx_submitted
         /\ tx_submitted' = IF kills THEN EmptyBag ELSE tx_submitted
         /\ life' = [life EXCEPT !.at = "gone",
                                 !.anchored = IF kills THEN 0 ELSE @]
         /\ ev' = [op |-> "unlink_freed", kills |-> kills]
    /\ UNCHANGED <<tx_context, echo_skb, stats, queue, present, pc, priv,
                   rx_urb, hist>>

NextLife ==
    \/ Probe
    \/ Open
    \/ LifeStartXmit
    \/ (LifeLive /\ GetFreeCtxScan("net"))
    \/ (LifeLive /\ XmitBusy("net"))
    \/ (LifeLive /\ XmitTake("net"))
    \/ (LifeLive /\ WriteBulkCallback)
    \/ LifeRxComplete
    \/ LifeRxKill
    \/ (LifeLive /\ ReadBulkCallback)
    \/ CloseBegin
    \/ CloseRxDone
    \/ CloseEnd
    \/ Disconnect
    \/ UnlinkFreed

SpecLife == InitLife /\ [][NextLife]_vars

----------------------------------------------------------------------------
(* Claims on startup and shutdown *)

\* C15: when the adapter state has been released, no receive and no
\* transmit transfer is outstanding and no completion is waiting for its
\* callback.
C15_DrainedBeforeRelease ==
    life.at \in {"freed", "gone"}
    => /\ rx_submitted = 0
       /\ rx_urb = NoRxUrb
       /\ tx_submitted = EmptyBag

\* C16: the callback of a receive transfer that mcba_usb_close killed
\* dispatches nothing and submits nothing; the callback of a transmit
\* transfer that mcba_usb_close killed acknowledges no echo frame, leaves
\* the statistics as they were and leaves the queue stopped.
C16_CancelledIsNoOp ==
    [][ /\ (ReadCbStep /\ rx_urb.status = "ENOENT")
           => /\ ~ev'.dispatched
              /\ ev'.resubmit = "none"
              /\ rx_submitted' = rx_submitted
              /\ priv' = priv
              /\ stats' = stats
        /\ (life.at = "closing_tx"
            /\ BagCardinality(tx_submitted') < BagCardinality(tx_submitted))
           => /\ ev'.op = "write_cb"
              /\ ev'.echo = NullCtx
              /\ stats' = stats
              /\ echo_skb' = echo_skb
              /\ queue' = "stopped" ]_vars

\* C18: mcba_usb_start submits the receive transfers first, then
\* initialises the context pool and sends the read-firmware-version
\* command for the USB controller and the one for the CAN controller; with
\* no receive transfer submitted it fails and does nothing else, with one
\* or more it returns 0.
C18_StartSequence ==
    ev.op = "probe"
    => IF ev.start.rx = 0
       THEN ev.start.ret # "0" /\ ev.start.log = <<>>
       ELSE /\ ev.start.ret = "0"
            /\ ev.start.log = Times(ev.start.rx, "rx_submit")
                              \o <<"init_ctx", "read_fw_ver USB",
                                   "read_fw_ver CAN">>

----------------------------------------------------------------------------
(* SpecDev: the device record under records of every kind and writes of    *)
(* the termination attribute                                               *)

\* The records of SpecDev: one of every command id the dispatcher knows,
\* and one it does not know.
DevRecs ==
    { Rec("I_AM_ALIVE_FROM_CAN", 0, FALSE, 5, 1,
          MCBA_VER_CAN_MAJOR, MCBA_VER_CAN_MINOR + 1, 0),
      Rec("I_AM_ALIVE_FROM_USB", 0, FALSE, 0, 0,
          MCBA_VER_USB_MAJOR, MCBA_VER_USB_MINOR, 1),
      Rec("RECEIVE_MESSAGE", 2, FALSE, 0, 0, 0, 0, 0),
      Rec("NOTHING_TO_SEND", 0, FALSE, 0, 0, 0, 0, 0),
      Rec("TRANSMIT_MESSAGE_RSP", 0, FALSE, 0, 0, 0, 0, 0),
      Rec("UNKNOWN", 0, FALSE, 0, 0, 0, 0, 0) }

\* The USB core completes a receive transfer that carries one record.
DevComplete == stats.rx_packets < MaxRxPackets /\ KaComplete(DevRecs)

NextDev ==
    \/ DevComplete
    \/ ReadBulkCallback
    \/ TerminationStore
    \/ GetFreeCtxScan("ctl")
    \/ XmitBusy("ctl")
    \/ XmitTake("ctl")
    \/ WriteBulkCallback

SpecDev == Init /\ [][NextDev]_vars

\* What the device record holds of the USB controller, and of the CAN
\* controller.
UsbVersion(p) == <<p.pic_usb_sw_ver_major, p.pic_usb_sw_ver_minor>>

CanState(p) == <<p.pic_can_sw_ver_major, p.pic_can_sw_ver_minor, p.bec>>

\* C21: the firmware versions, the error counters and the termination
\* state change only in the dispatch of a keep-alive report and in a write
\* of the termination attribute: the dispatch of any other record changes
\* none of them, a report of the USB controller leaves the CAN version and
\* the error counters, a report of the CAN controller leaves the USB
\* version and the termination state, and a write of the attribute leaves
\* all but the termination state.
C21_DeviceStateWriters ==
    [][ IF ReadCbStep /\ Dispatches
        THEN LET recs == CompleteRecs(rx_urb.buf)
             IN  /\ ReportsOf(recs, "USB") = <<>>
                    => /\ UsbVersion(priv') = UsbVersion(priv)
                       /\ priv'.termination_state = priv.termination_state
                 /\ ReportsOf(recs, "CAN") = <<>>
                    => CanState(priv') = CanState(priv)
        ELSE IF ev'.op = "termination_store"
        THEN /\ UsbVersion(priv') = UsbVersion(priv)
             /\ CanState(priv') = CanState(priv)
        ELSE /\ UsbVersion(priv') = UsbVersion(priv)
             /\ CanState(priv') = CanState(priv)
             /\ priv'.termination_state = priv.termination_state ]_vars

\* A record that is no keep-alive report has been dispatched when both
\* controllers had reported and the termination state was 1.
C21_Witness ==
    /\ ev.op = "read_cb"
    /\ ev.dispatched
    /\ Len(ev.out.processed) = 1
    /\ ev.out.processed[1].cmdId
         \in {"RECEIVE_MESSAGE", "NOTHING_TO_SEND", "TRANSMIT_MESSAGE_RSP",
              "UNKNOWN"}
    /\ UsbVersion(priv) = <<MCBA_VER_USB_MAJOR, MCBA_VER_USB_MINOR>>
    /\ CanState(priv) = <<MCBA_VER_CAN_MAJOR, MCBA_VER_CAN_MINOR + 1,
                          [txerr |-> 5, rxerr |-> 1]>>
    /\ priv.termination_state = 1

----------------------------------------------------------------------------
(* Claims on the firmware version warning *)

\* The version the driver was tested against, of the firmware of src.
TestedVersion(src) ==
    IF src = "USB" THEN <<MCBA_VER_USB_MAJOR, MCBA_VER_USB_MINOR>>
    ELSE <<MCBA_VER_CAN_MAJOR, MCBA_VER_CAN_MINOR>>

\* C22: with the announcement of the firmware version of a source the
\* warning about an untested version is logged exactly when the announced
\* version is not the tested one.
C22_WarnUnlessTested ==
    [][ (ReadCbStep /\ Dispatches)
        => \A k \in 1 .. Len(ev'.out.notices) :
             LET n == ev'.out.notices[k]
             IN  n.warned = (<<n.major, n.minor>> # TestedVersion(n.src)) ]_vars

----------------------------------------------------------------------------
(* Claims on the contexts and the echo frames of failed sends *)

\* The slots of the context pool that are not free.
Occupied(ctxs) == {s \in Slots : ~CtxIsFree(ctxs, s)}

\* The step is the return of mcba_usb_xmit of thread t from a claimed slot.
XmitReturns(t) == pc[t].at = "take" /\ pc'[t].at = "idle"

\* C23: when mcba_usb_xmit returns from a failed send the context it had
\* claimed is free, and whenever no send is under way as many contexts are
\* occupied as transmit transfers are outstanding.
C23_FailedSendFreesContext ==
    [][ /\ \A t \in Threads :
             (XmitReturns(t) /\ ev'.how # "ok")
             => CtxIsFree(tx_context', ev'.ctx)
        /\ AllIdle'
           => Cardinality(Occupied(tx_context')) = BagCardinality(tx_submitted')
      ]_vars

\* C24: the send path releases a frame handed to it once: a busy return
\* releases nothing, the completion of its transfer acknowledges its echo,
\* a failed send releases it once and not twice, and a failed control
\* command releases no buffer.
C24_FrameReleasedOnce ==
    [][ /\ \A t \in Threads :
             /\ (pc[t].at = "null" /\ pc'[t].at = "idle")
                => echo_skb' = echo_skb
             /\ (XmitReturns(t) /\ ev'.how = "ok")
                => ev'.freed = <<>>
             /\ (XmitReturns(t) /\ ev'.how # "ok" /\ pc[t].skb # NoSkb)
                => Len(ev'.freed) = 1
             /\ (XmitReturns(t) /\ ev'.how # "ok" /\ pc[t].skb = NoSkb)
                => ev'.freed = <<>>
        /\ ( /\ BagCardinality(tx_submitted') < BagCardinality(tx_submitted)
             /\ ev'.op = "write_cb"
             /\ IsFrameMsg(ev'.urb.msg)
             /\ present )
           => ev'.echo = ev'.urb.ctx ]_vars

----------------------------------------------------------------------------
(* SpecTerm: writes of the termination attribute while frames are sent *)

\* termination_store; hist keeps the value a write of 0 or 1 asked for and
\* the termination state it found.
TermRequest ==
    /\ TerminationStoreStep
    /\ hist' = IF ev'.val \in {0, 1}
               THEN <<[val |-> ev'.val, old |-> priv.termination_state]>>
               ELSE hist

NextTerm ==
    \/ TermRequest
    \/ StartXmit(ConcFrames)
    \/ \E t \in Threads : GetFreeCtxScan(t)
    \/ \E t \in Threads : XmitBusy(t)
    \/ \E t \in Threads : XmitTake(t)
    \/ WriteBulkCallback

SpecTerm == Init /\ [][NextTerm]_vars

\* C25: when the send of the command of a write of the termination
\* attribute returns, the termination state is the value written if the
\* command was submitted and the value from before the write if no context
\* was free or the send failed; a control command that finds no free
\* context leaves the queue as it was.
C25_TerminationOnlyIfSent ==
    [][ /\ (pc["ctl"].at = "null" /\ pc'["ctl"].at = "idle")
           => /\ queue' = queue
              /\ priv'.termination_state = hist[1].old
        /\ (XmitReturns("ctl") /\ ev'.how # "ok")
           => priv'.termination_state = hist[1].old
        /\ (XmitReturns("ctl") /\ ev'.how = "ok")
           => priv'.termination_state = hist[1].val ]_vars

============================================================================
